---- MODULE Spec2Model ----
(***************************************************************************)
(* Split Translator: the background service worker of the extension        *)
(* (src/src/background.ts).  One splitAndTranslate request is handled by   *)
(* handleSplitAndTranslate, a linear sequence of awaited host API calls;   *)
(* every await is a suspension point and so a step of the model.           *)
(*                                                                         *)
(* Conventions                                                             *)
(*  - an optional JavaScript value is a set: {} is undefined (or null),    *)
(*    {v} is the defined value v;                                          *)
(*  - a string the code inspects (a URL) is a sequence of text chunks; the *)
(*    chunks are cut so that every pattern the code searches for is a      *)
(*    whole number of chunks, and startsWith / includes work on the chunk  *)
(*    sequence as they do on the characters;                               *)
(*  - the window centre left + width/2 may be a half pixel, so centres are *)
(*    kept doubled (2*left + width) and compared with doubled edges.       *)
(***************************************************************************)
EXTENDS Integers, Sequences, FiniteSets, TLC

\* ------------------------------------------------------------------ bounds
MaxInvocations == 2     \* invocation records the service worker can hold
MaxRequests == 1        \* requests the popup pages send
MaxClicks == 2          \* click handlers running at once in one popup page
MaxMonitors == 2        \* longest monitor list of the geometry specification

\* --------------------------------------------------------------- constants
OVERLAP_PIXELS == 8
POLL_INTERVAL == 100
MAX_WAIT_TIME == 3000
MIN_WINDOW_WIDTH == 400
MIN_WINDOW_HEIGHT == 300
DEFAULT_WINDOW_WIDTH == 800
DEFAULT_WINDOW_HEIGHT == 600

\* ---------------------------------------------------------- optional values
Undefined == {}
Defined(v) == {v}
IsDefined(x) == x # {}
ValueOf(x) == CHOOSE v \in x : TRUE
\* x ?? d
Nullish(x, d) == IF x = {} THEN d ELSE ValueOf(x)

Max(a, b) == IF a >= b THEN a ELSE b

\* ------------------------------------------------------------------ strings
\* String.prototype.startsWith on chunk sequences
startsWith(s, prefix) ==
    /\ Len(prefix) <= Len(s)
    /\ SubSeq(s, 1, Len(prefix)) = prefix

\* String.prototype.includes on chunk sequences
includes(s, part) ==
    \E k \in 0..(Len(s) - Len(part)) : SubSeq(s, k + 1, k + Len(part)) = part

\* 'translate.google.com' contains 'translate.goog' as a substring, so the
\* former is the latter followed by 'le.com'.
TranslateGoog == <<"translate.goog">>
TranslateGoogleCom == <<"translate.goog", "le.com">>

\* the list of the earlier build (src/background.js), without edge-extension://
UNSUPPORTED_PREFIXES_Old ==
    << <<"chrome://">>, <<"edge://">>, <<"about:">>,
       <<"chrome-extension://">>, <<"file://">> >>

UNSUPPORTED_PREFIXES ==
    << <<"chrome://">>, <<"edge://">>, <<"about:">>,
       <<"chrome-extension://">>, <<"edge-extension://">>, <<"file://">> >>

\* encodeURIComponent, chunk by chunk: letters, digits and - _ . ! ~ * ' ( )
\* are kept, every other character becomes %XX.
encodeChunk(c) ==
    CASE c = "https://" -> "https%3A%2F%2F"
      [] c = "http://" -> "http%3A%2F%2F"
      [] c = "chrome://" -> "chrome%3A%2F%2F"
      [] c = "edge://" -> "edge%3A%2F%2F"
      [] c = "about:" -> "about%3A"
      [] c = "chrome-extension://" -> "chrome-extension%3A%2F%2F"
      [] c = "edge-extension://" -> "edge-extension%3A%2F%2F"
      [] c = "file://" -> "file%3A%2F%2F"
      [] c = "extensions/" -> "extensions%2F"
      [] c = "settings/" -> "settings%2F"
      [] c = "abcd1234/popup.html" -> "abcd1234%2Fpopup.html"
      [] c = "efgh5678/options.html" -> "efgh5678%2Foptions.html"
      [] c = "/C:/Users/test/file.html" -> "%2FC%3A%2FUsers%2Ftest%2Ffile.html"
      [] c = "/a" -> "%2Fa"
      [] c = "?b=1" -> "%3Fb%3D1"
      [] c = "?q=" -> "%3Fq%3D"
      [] c = "/path" -> "%2Fpath"
      [] c = "/translate" -> "%2Ftranslate"
      [] c = "/translated" -> "%2Ftranslated"
      [] OTHER -> c

\* encodeURIComponent(x): an undefined argument is converted to the string
\* 'undefined' first.
encodeURIComponent(x) ==
    IF x = Undefined THEN <<"undefined">>
    ELSE [k \in 1..Len(ValueOf(x)) |-> encodeChunk(ValueOf(x)[k])]

\* variant: the source URL is appended as it is
translateUrlOf_NoEncode(targetLanguage, url) ==
    <<"https://">> \o TranslateGoogleCom \o <<"/translate", "?sl=auto&tl=", targetLanguage, "&u=">>
        \o (IF url = Undefined THEN <<"undefined">> ELSE ValueOf(url))

\* the template literal of handleSplitAndTranslate
translateUrlOf(targetLanguage, url) ==
    <<"https://">> \o TranslateGoogleCom \o <<"/translate", "?sl=auto&tl=", targetLanguage, "&u=">>
        \o encodeURIComponent(url)

\* --------------------------------------------------------------- geometry
Rect(l, t, w, h) == [left |-> l, top |-> t, width |-> w, height |-> h]
ZeroRect == Rect(0, 0, 0, 0)

\* variant: the height is not clamped
enforceMinimumDimensions_WidthOnly(bounds) ==
    [bounds EXCEPT !.width = Max(bounds.width, MIN_WINDOW_WIDTH)]

enforceMinimumDimensions(bounds) ==
    [bounds EXCEPT !.width = Max(bounds.width, MIN_WINDOW_WIDTH),
                   !.height = Max(bounds.height, MIN_WINDOW_HEIGHT)]

\* variant: the right and bottom edges count as inside
centerInWorkArea_Closed(d, currentWindow) ==
    LET windowCenterX2 == 2 * Nullish(currentWindow.left, 0)
                            + Nullish(currentWindow.width, DEFAULT_WINDOW_WIDTH)
        windowCenterY2 == 2 * Nullish(currentWindow.top, 0)
                            + Nullish(currentWindow.height, DEFAULT_WINDOW_HEIGHT)
    IN /\ windowCenterX2 >= 2 * d.workArea.left
       /\ windowCenterX2 <= 2 * (d.workArea.left + d.workArea.width)
       /\ windowCenterY2 >= 2 * d.workArea.top
       /\ windowCenterY2 <= 2 * (d.workArea.top + d.workArea.height)

\* the predicate of displays.find: the window centre is inside the work
\* area, left/top edge included, right/bottom edge excluded (doubled).
centerInWorkArea(d, currentWindow) ==
    LET windowCenterX2 == 2 * Nullish(currentWindow.left, 0)
                            + Nullish(currentWindow.width, DEFAULT_WINDOW_WIDTH)
        windowCenterY2 == 2 * Nullish(currentWindow.top, 0)
                            + Nullish(currentWindow.height, DEFAULT_WINDOW_HEIGHT)
    IN /\ windowCenterX2 >= 2 * d.workArea.left
       /\ windowCenterX2 < 2 * (d.workArea.left + d.workArea.width)
       /\ windowCenterY2 >= 2 * d.workArea.top
       /\ windowCenterY2 < 2 * (d.workArea.top + d.workArea.height)

\* displays.find(...) || displays[0]   (1-based here)
findDisplay(displays, currentWindow) ==
    LET hits == {k \in 1..Len(displays) : centerInWorkArea(displays[k], currentWindow)}
    IN IF hits = {} THEN displays[1]
       ELSE displays[CHOOSE k \in hits : \A m \in hits : k <= m]

\* variant: one undefined field makes the whole window fall back to the defaults
selectBounds_AtomicDefault(displays, currentWindow) ==
    IF Len(displays) = 0
    THEN IF \/ currentWindow.left = Undefined \/ currentWindow.top = Undefined
            \/ currentWindow.width = Undefined \/ currentWindow.height = Undefined
         THEN Rect(0, 0, DEFAULT_WINDOW_WIDTH, DEFAULT_WINDOW_HEIGHT)
         ELSE Rect(ValueOf(currentWindow.left), ValueOf(currentWindow.top),
                   ValueOf(currentWindow.width), ValueOf(currentWindow.height))
    ELSE LET display == findDisplay(displays, currentWindow)
         IN Rect(display.workArea.left, display.workArea.top,
                 display.workArea.width, display.workArea.height)

\* the local 'bounds' of getDisplayBounds, before the minimums are enforced
selectBounds(displays, currentWindow) ==
    IF Len(displays) = 0
    THEN Rect(Nullish(currentWindow.left, 0),
              Nullish(currentWindow.top, 0),
              Nullish(currentWindow.width, DEFAULT_WINDOW_WIDTH),
              Nullish(currentWindow.height, DEFAULT_WINDOW_HEIGHT))
    ELSE LET display == findDisplay(displays, currentWindow)
         IN Rect(display.workArea.left, display.workArea.top,
                 display.workArea.width, display.workArea.height)

getDisplayBounds(displays, currentWindow) ==
    enforceMinimumDimensions(selectBounds(displays, currentWindow))

\* variant: the half is rounded up
halfWidthOf_Ceil(displayBounds) == (displayBounds.width + 1) \div 2

halfWidthOf(displayBounds) == displayBounds.width \div 2

\* variant: the left window is exactly half the display wide
leftPositionOf_NoOverlap(displayBounds) ==
    Rect(displayBounds.left, displayBounds.top, halfWidthOf(displayBounds), displayBounds.height)

leftPositionOf(displayBounds) ==
    Rect(displayBounds.left, displayBounds.top,
         halfWidthOf(displayBounds) + OVERLAP_PIXELS, displayBounds.height)

\* variant: the right window starts at the middle of the display
rightPositionOf_NoOverlap(displayBounds) ==
    Rect(displayBounds.left + halfWidthOf(displayBounds), displayBounds.top,
         halfWidthOf(displayBounds) + OVERLAP_PIXELS, displayBounds.height)

rightPositionOf(displayBounds) ==
    Rect(displayBounds.left + halfWidthOf(displayBounds) - OVERLAP_PIXELS,
         displayBounds.top,
         halfWidthOf(displayBounds) + OVERLAP_PIXELS, displayBounds.height)

\* ------------------------------------------------------------------ inputs
Invs == 1..MaxInvocations

\* error messages
InvalidTabError == "The tab information is invalid. Please check your browser settings or try again."
UnsupportedPageError == "This page type cannot be translated. Please try on a regular website."
WindowCreationError == "Failed to create right window"
SessionNotFoundError == "Split view data not found"
TypeErrorNull == "Cannot read properties of null (reading 'url')"
TypeErrorUndefined == "Cannot read properties of undefined (reading 'url')"
\* the message of the error a rejected host call raises
HostError(api) ==
    CASE api = "windows.get" -> "No window with id"
      [] api = "windows.create" -> "Could not create the window"
      [] api = "windows.update" -> "Could not update the window"
      [] api = "storage.set" -> "Could not write to storage"
      [] api = "storage.get" -> "Could not read from storage"
      [] api = "tabs.get" -> "No tab with id"
      [] api = "tabs.update" -> "Could not update the tab"
      [] OTHER -> "Unknown host error"

SourceTabId == 10
SourceWindowId == 1

\* the URLs a source tab may show
WebUrls ==
    { <<"https://", "example.com">>,
      <<"http://", "example.org">>,
      <<"https://", "example.com", "/a", "?b=1">>,
      <<"https://", "example.com", "/a", "?q=", "chrome://">> }
SchemeUrls ==
    { <<"chrome://", "extensions/">>,
      <<"edge://", "settings/">>,
      <<"about:", "blank">>,
      <<"chrome-extension://", "abcd1234/popup.html">>,
      <<"edge-extension://", "efgh5678/options.html">>,
      <<"file://", "/C:/Users/test/file.html">> }
TranslateUrls ==
    { <<"https://", "example-com", ".", "translate.goog", "/path">>,
      <<"https://", "translate.goog", "/path">>,
      <<"https://", "translate.goog", "le.com", "/translate">> }
MentionUrls ==
    { <<"https://", "example.com", "/a", "?q=", "translate.goog">>,
      <<"https://", "example-", "translate.goog", "/translated">> }
TabUrls == WebUrls \cup SchemeUrls \cup TranslateUrls \cup MentionUrls \cup {<< >>}

Languages == {"ja", "en"}

\* request.currentTab: null, undefined or a tab object
NullTab == [kind |-> "null", id |-> SourceTabId, url |-> Undefined, windowId |-> Undefined]
UndefinedTab == [kind |-> "undefined", id |-> SourceTabId, url |-> Undefined, windowId |-> Undefined]
TabObjects ==
    [kind : {"tab"}, id : {SourceTabId},
     url : {Undefined} \cup {Defined(u) : u \in TabUrls},
     windowId : {Undefined, Defined(SourceWindowId)}]
Tabs == {NullTab, UndefinedTab} \cup TabObjects

Requests == [action : {"splitAndTranslate"}, currentTab : Tabs, targetLanguage : Languages]

\* bounds of a window as the host reports them (every field optional)
Bounds(l, t, w, h) == [left |-> l, top |-> t, width |-> w, height |-> h]
DefinedBounds(r) == Bounds(Defined(r.left), Defined(r.top), Defined(r.width), Defined(r.height))
UndefinedBounds == Bounds(Undefined, Undefined, Undefined, Undefined)

Display(l, t, w, h) == [workArea |-> Rect(l, t, w, h)]
WorkAreas ==
    { Display(0, 0, 1920, 1080), Display(1920, 0, 1920, 1080),
      Display(0, 0, 300, 200), Display(0, 1080, 1367, 768) }

\* every list of at most n monitors
RECURSIVE MonitorLists(_)
MonitorLists(n) ==
    IF n = 0 THEN { << >> }
    ELSE MonitorLists(n - 1) \cup
         { Append(l, d) : l \in {m \in MonitorLists(n - 1) : Len(m) = n - 1}, d \in WorkAreas }

\* window bounds of the geometry specification
GeomWindowBounds ==
    [left : {Undefined, {0}, {100}, {1520}, {2400}},
     top : {Undefined, {50}, {300}, {780}},
     width : {Undefined, {200}, {400}, {401}, {800}},
     height : {Undefined, {150}, {300}, {600}}]

\* hosts of the orchestration specification
HostWindowBounds ==
    { DefinedBounds(Rect(100, 50, 200, 150)),
      DefinedBounds(Rect(2400, 300, 801, 600)),
      Bounds({30}, Undefined, Undefined, {700}) }
HostMonitorLists ==
    { << >>,
      << Display(0, 0, 1920, 1080), Display(1920, 0, 1920, 1080) >>,
      << Display(0, 1080, 1367, 768) >> }
DisplayApiModes == {"absent", "lastError", "ok"}

\* ------------------------------------------------------------------- state
VARIABLES
    inbox,          \* splitAndTranslate messages sent, not yet dispatched to the listener
    inv,            \* the invocations of handleSplitAndTranslate: position and locals
    calls,          \* host API calls issued so far, in order: <<invocation, api>>
                    \* (inv[i].waits is history too: how each readiness wait of i ended)
    windows,        \* host: the open windows and their bounds
    tabs,           \* host: the open tabs: window, url, load status
    storage,        \* host: chrome.storage.local, key splitViewData
    focused,        \* host: the window that has the focus
    created,        \* host: how many windows it has created
    monitors,       \* host: the monitors chrome.system.display.getInfo reports
    displayApi,     \* host: whether chrome.system.display exists and works
    popup,          \* the popup page: its controls and its running click handlers
    sync            \* host: chrome.storage.sync, key targetLanguage

vars == <<inbox, inv, calls, windows, tabs, storage, focused, created, monitors, displayApi, popup, sync>>
host == <<windows, tabs, storage, focused, created, monitors, displayApi, popup, sync>>

NoResponse == [success |-> FALSE, error |-> "(no response)"]
Success == [success |-> TRUE, error |-> ""]
Failure(message) == [success |-> FALSE, error |-> message]

\* a local that has not been assigned yet; once assigned it is Defined(value)
Unassigned == {}

IdleInvocation ==
    [pc |-> "idle",
     currentTab |-> NullTab, targetLanguage |-> "",
     translateUrl |-> << >>,
     currentWindow |-> UndefinedBounds,
     displays |-> << >>,
     bounds |-> ZeroRect,
     displayBounds |-> ZeroRect, leftPosition |-> ZeroRect, rightPosition |-> ZeroRect,
     rightWindow |-> Unassigned,
     result |-> Undefined,
     elapsed |-> 0,
     currentUrl |-> Unassigned,
     waits |-> << >>,
     response |-> NoResponse]

\* the popup page.  handlers: the position of each click handler running in
\* this page; load: the chrome.storage.sync.get of the page and its result;
\* changed and answered are history: the selection was changed by the user
\* in this page, a response has arrived in this page.  (The status line is
\* not part of the state.)
ClosedPopup ==
    [open |-> FALSE,
     disabled |-> FALSE, ariaBusy |-> FALSE,
     selection |-> "ja",
     load |-> "none", loadResult |-> Undefined,
     handlers |-> << >>,
     changed |-> FALSE, answered |-> FALSE]

HostInit ==
    /\ tabs = (SourceTabId :> [windowId |-> SourceWindowId,
                               url |-> <<"https://", "example.com">>, status |-> "complete"])
    /\ storage = Undefined
    /\ focused = SourceWindowId
    /\ created = 0
    /\ calls = << >>
    /\ inv = [i \in Invs |-> IdleInvocation]
    /\ popup = ClosedPopup
    /\ sync = Undefined

\* one request, any host
Init ==
    /\ inbox \in {<<r>> : r \in Requests}
    /\ windows \in {(SourceWindowId :> b) : b \in HostWindowBounds}
    /\ monitors \in HostMonitorLists
    /\ displayApi \in DisplayApiModes
    /\ HostInit

\* ----------------------------------------------------------------- actions
Call(i, api) == calls' = Append(calls, <<i, api>>)

\* sendResponse: the invocation is over
Respond(i, record, response) ==
    inv' = [inv EXCEPT ![i] = [record EXCEPT !.pc = "responded", !.response = response]]

\* !currentTab || !currentTab.url || typeof currentTab.windowId !== 'number'
invalidTab(currentTab) ==
    \/ currentTab.kind # "tab"
    \/ currentTab.url = Undefined
    \/ ValueOf(currentTab.url) = << >>
    \/ currentTab.windowId = Undefined

\* UNSUPPORTED_PREFIXES.some(prefix => url.startsWith(prefix)) || url.includes('translate.goog')
unsupportedUrl(url) ==
    \/ \E k \in 1..Len(UNSUPPORTED_PREFIXES) : startsWith(url, UNSUPPORTED_PREFIXES[k])
    \/ includes(url, TranslateGoog)

\* The listener takes a message and runs handleSplitAndTranslate up to its
\* first await: the translate URL is built from currentTab.url (a TypeError
\* when currentTab is null or undefined), then handleSplitView validates the
\* tab and the URL and calls chrome.windows.get.
Receive(i) ==
    /\ inbox # << >>
    /\ inv[i].pc = "idle"
    /\ \A j \in Invs : j < i => inv[j].pc # "idle"
    /\ LET request == Head(inbox)
           currentTab == request.currentTab
           started == [inv[i] EXCEPT !.currentTab = currentTab,
                                     !.targetLanguage = request.targetLanguage]
       IN /\ inbox' = Tail(inbox)
          /\ IF currentTab.kind = "null"
             THEN Respond(i, started, Failure(TypeErrorNull)) /\ UNCHANGED calls
             ELSE IF currentTab.kind = "undefined"
             THEN Respond(i, started, Failure(TypeErrorUndefined)) /\ UNCHANGED calls
             ELSE LET validated ==
                       [started EXCEPT !.translateUrl =
                            translateUrlOf(request.targetLanguage, currentTab.url)]
                  IN IF invalidTab(currentTab)
                     THEN Respond(i, validated, Failure(InvalidTabError)) /\ UNCHANGED calls
                     ELSE IF unsupportedUrl(ValueOf(currentTab.url))
                     THEN Respond(i, validated, Failure(UnsupportedPageError)) /\ UNCHANGED calls
                     ELSE /\ inv' = [inv EXCEPT ![i] = [validated EXCEPT !.pc = "windows.get"]]
                          /\ Call(i, "windows.get")
    /\ UNCHANGED host

\* chrome.windows.get rejects (the window is gone)
WindowsGetRejected(i) ==
    /\ inv[i].pc = "windows.get"
    /\ Respond(i, inv[i], Failure(HostError("windows.get")))
    /\ UNCHANGED <<inbox, calls, host>>

\* chrome.windows.get resolves; getDisplayInfo starts
WindowsGetResolved(i) ==
    /\ inv[i].pc = "windows.get"
    /\ ValueOf(inv[i].currentTab.windowId) \in DOMAIN windows
    /\ inv' = [inv EXCEPT ![i].currentWindow = windows[ValueOf(inv[i].currentTab.windowId)],
                          ![i].pc = "getDisplayInfo"]
    /\ IF displayApi = "absent" THEN UNCHANGED calls ELSE Call(i, "system.display.getInfo")
    /\ UNCHANGED <<inbox, host>>

\* getDisplayInfo: [] without the display API or on lastError, else the list
\* variant: lastError is not looked at
getDisplayInfo_IgnoreLastError == IF displayApi = "absent" THEN << >> ELSE monitors

getDisplayInfo == IF displayApi = "ok" THEN monitors ELSE << >>

\* getDisplayInfo resolves; the display area and the two rectangles are
\* computed and chrome.windows.create is called with the right rectangle
DisplayInfoResolved(i) ==
    /\ inv[i].pc = "getDisplayInfo"
    /\ LET displays == getDisplayInfo
           displayBounds == getDisplayBounds(displays, inv[i].currentWindow)
       IN inv' = [inv EXCEPT ![i].displays = displays,
                             ![i].bounds = selectBounds(displays, inv[i].currentWindow),
                             ![i].displayBounds = displayBounds,
                             ![i].leftPosition = leftPositionOf(displayBounds),
                             ![i].rightPosition = rightPositionOf(displayBounds),
                             ![i].pc = "windows.create"]
    /\ Call(i, "windows.create")
    /\ UNCHANGED <<inbox, host>>

\* what chrome.windows.create may hand back for window w with first tab t
CreateResults(w, t) ==
    { Undefined,
      Defined([id |-> Defined(w), tabs |-> Undefined]),
      Defined([id |-> Defined(w), tabs |-> Defined(<< >>)]),
      Defined([id |-> Defined(w), tabs |-> Defined(<< [id |-> Undefined] >>)]),
      Defined([id |-> Undefined, tabs |-> Defined(<< [id |-> Defined(t)] >>)]),
      Defined([id |-> Defined(w), tabs |-> Defined(<< [id |-> Defined(t)] >>)]) }

\* variant: the window id is not checked
usableWindow_NoIdCheck(rightWindow) ==
    /\ rightWindow # Undefined
    /\ ValueOf(rightWindow).tabs # Undefined
    /\ Len(ValueOf(ValueOf(rightWindow).tabs)) > 0
    /\ ValueOf(ValueOf(rightWindow).tabs)[1].id # Undefined

\* !(!rightWindow || !rightWindow.tabs || !rightWindow.tabs[0]?.id || !rightWindow.id)
usableWindow(rightWindow) ==
    /\ rightWindow # Undefined
    /\ ValueOf(rightWindow).tabs # Undefined
    /\ Len(ValueOf(ValueOf(rightWindow).tabs)) > 0
    /\ ValueOf(ValueOf(rightWindow).tabs)[1].id # Undefined
    /\ ValueOf(rightWindow).id # Undefined

\* a host call of invocation i is rejected: the error reaches the listener's
\* catch and is answered with its message
\* variant: the answer does not carry the message of the error
Rejected_Generic(i, at, api) ==
    /\ inv[i].pc = at
    /\ Respond(i, inv[i], Failure("Unknown error"))
    /\ UNCHANGED <<inbox, calls, host>>

Rejected(i, at, api) ==
    /\ inv[i].pc = at
    /\ Respond(i, inv[i], Failure(HostError(api)))
    /\ UNCHANGED <<inbox, calls, host>>

WindowsCreateRejected(i) == Rejected(i, "windows.create", "windows.create")

\* chrome.windows.create resolves: the host has opened a window at the right
\* rectangle showing the source URL; the result is checked and
\* chrome.windows.update is called with the left rectangle
WindowsCreateResolved(i) ==
    /\ inv[i].pc = "windows.create"
    /\ LET w == SourceWindowId + created + 1
           t == SourceTabId + created + 1
       IN /\ created' = created + 1
          /\ windows' = (w :> DefinedBounds(inv[i].rightPosition)) @@ windows
          /\ tabs' = (t :> [windowId |-> w, url |-> ValueOf(inv[i].currentTab.url),
                            status |-> "loading"]) @@ tabs
          /\ \E rightWindow \in CreateResults(w, t) :
               LET record == [inv[i] EXCEPT !.rightWindow = Defined(rightWindow)]
               IN IF usableWindow(rightWindow)
                  THEN /\ inv' = [inv EXCEPT ![i] = [record EXCEPT !.pc = "windows.update"]]
                       /\ Call(i, "windows.update")
                  ELSE /\ Respond(i, record, Failure(WindowCreationError))
                       /\ UNCHANGED calls
    /\ UNCHANGED <<inbox, storage, focused, monitors, displayApi, popup, sync>>

\* variant: the duplicate window is closed again when the resize fails
WindowsUpdateRejected_Rollback(i) ==
    /\ inv[i].pc = "windows.update"
    /\ LET w == ValueOf(ValueOf(ValueOf(inv[i].rightWindow)).id)
       IN /\ windows' = [v \in DOMAIN windows \ {w} |-> windows[v]]
          /\ tabs' = [t \in {u \in DOMAIN tabs : tabs[u].windowId # w} |-> tabs[t]]
    /\ Respond(i, inv[i], Failure(HostError("windows.update")))
    /\ UNCHANGED <<inbox, calls, storage, focused, created, monitors, displayApi, popup, sync>>

WindowsUpdateRejected(i) == Rejected(i, "windows.update", "windows.update")

\* the record handleSplitView saves
splitViewDataOf(record) ==
    LET rightWindow == ValueOf(ValueOf(record.rightWindow))
    IN [originalTabId |-> record.currentTab.id,
        duplicatedTabId |-> ValueOf(ValueOf(rightWindow.tabs)[1].id),
        targetLanguage |-> record.targetLanguage,
        originalWindowId |-> ValueOf(record.currentTab.windowId),
        duplicatedWindowId |-> ValueOf(rightWindow.id)]

\* chrome.windows.update resolves: the source window has the left rectangle;
\* chrome.storage.local.set is called
WindowsUpdateResolved(i) ==
    /\ inv[i].pc = "windows.update"
    /\ ValueOf(inv[i].currentTab.windowId) \in DOMAIN windows
    /\ windows' = [windows EXCEPT ![ValueOf(inv[i].currentTab.windowId)] =
                        DefinedBounds(inv[i].leftPosition)]
    /\ inv' = [inv EXCEPT ![i].pc = "storage.set"]
    /\ Call(i, "storage.set")
    /\ UNCHANGED <<inbox, tabs, storage, focused, created, monitors, displayApi, popup, sync>>

StorageSetRejected(i) == Rejected(i, "storage.set", "storage.set")

\* chrome.storage.local.set resolves: the record replaces the stored one;
\* handleSplitView returns and chrome.storage.local.get is called
\* variant: the fields are written one by one into the existing record, the
\* language only when there is none yet
StorageSetResolved_Merge(i) ==
    /\ inv[i].pc = "storage.set"
    /\ storage' = IF storage = Undefined THEN Defined(splitViewDataOf(inv[i]))
                  ELSE Defined([splitViewDataOf(inv[i]) EXCEPT
                                    !.targetLanguage = ValueOf(storage).targetLanguage])
    /\ inv' = [inv EXCEPT ![i].pc = "storage.get"]
    /\ Call(i, "storage.get")
    /\ UNCHANGED <<inbox, windows, tabs, focused, created, monitors, displayApi, popup, sync>>

\* variant: an existing record is kept
StorageSetResolved_KeepExisting(i) ==
    /\ inv[i].pc = "storage.set"
    /\ storage' = IF storage = Undefined THEN Defined(splitViewDataOf(inv[i])) ELSE storage
    /\ inv' = [inv EXCEPT ![i].pc = "storage.get"]
    /\ Call(i, "storage.get")
    /\ UNCHANGED <<inbox, windows, tabs, focused, created, monitors, displayApi, popup, sync>>

StorageSetResolved(i) ==
    /\ inv[i].pc = "storage.set"
    /\ storage' = Defined(splitViewDataOf(inv[i]))
    /\ inv' = [inv EXCEPT ![i].pc = "storage.get"]
    /\ Call(i, "storage.get")
    /\ UNCHANGED <<inbox, windows, tabs, focused, created, monitors, displayApi, popup, sync>>

StorageGetRejected(i) == Rejected(i, "storage.get", "storage.get")

\* waitForTabReady starts (startTime = Date.now()) or its sleep has ended:
\* while the elapsed time is below maxWaitTime the tab is looked up, else
\* the wait is over (its locals are gone) and the caller goes on with its
\* next host call.  The lookups of a wait are not entered in calls.
\* variant: the loop has no ceiling
WaitLoop_NoCeiling(i, record, elapsed, lookup, after, next) ==
    /\ inv' = [inv EXCEPT ![i] = [record EXCEPT !.elapsed = 0, !.pc = lookup]]
    /\ UNCHANGED calls

\* variant: reaching the ceiling is an error
WaitLoop_ThrowOnTimeout(i, record, elapsed, lookup, after, next) ==
    IF elapsed < MAX_WAIT_TIME
    THEN /\ inv' = [inv EXCEPT ![i] = [record EXCEPT !.elapsed = elapsed, !.pc = lookup]]
         /\ UNCHANGED calls
    ELSE /\ Respond(i, [record EXCEPT !.waits = Append(@, "expired")],
                    Failure("Tab did not finish loading"))
         /\ UNCHANGED calls

WaitLoop(i, record, elapsed, lookup, after, next) ==
    IF elapsed < MAX_WAIT_TIME
    THEN /\ inv' = [inv EXCEPT ![i] = [record EXCEPT !.elapsed = elapsed, !.pc = lookup]]
         /\ UNCHANGED calls
    ELSE /\ inv' = [inv EXCEPT ![i] = [record EXCEPT !.elapsed = 0, !.pc = after,
                                                     !.waits = Append(@, "expired")]]
         /\ Call(i, next)

\* variant: only a missing record fails the read-back
StorageGetResolved_NoIdCheck(i) ==
    /\ inv[i].pc = "storage.get"
    /\ LET record == [inv[i] EXCEPT !.result = storage]
       IN IF storage = Undefined
          THEN Respond(i, record, Failure(SessionNotFoundError)) /\ UNCHANGED calls
          ELSE WaitLoop(i, record, 0, "wait1.lookup", "tabs.get", "tabs.get")
    /\ UNCHANGED <<inbox, host>>

\* variant: the first readiness wait is left out
StorageGetResolved_NoWait(i) ==
    /\ inv[i].pc = "storage.get"
    /\ LET record == [inv[i] EXCEPT !.result = storage]
       IN IF storage = Undefined \/ ValueOf(storage).duplicatedTabId = 0
          THEN Respond(i, record, Failure(SessionNotFoundError)) /\ UNCHANGED calls
          ELSE /\ inv' = [inv EXCEPT ![i] = [record EXCEPT !.pc = "tabs.get"]]
               /\ Call(i, "tabs.get")
    /\ UNCHANGED <<inbox, host>>

\* chrome.storage.local.get resolves: without a record or a duplicatedTabId
\* the invocation fails, else the first readiness wait starts
StorageGetResolved(i) ==
    /\ inv[i].pc = "storage.get"
    /\ LET record == [inv[i] EXCEPT !.result = storage]
       IN IF storage = Undefined \/ ValueOf(storage).duplicatedTabId = 0
          THEN Respond(i, record, Failure(SessionNotFoundError)) /\ UNCHANGED calls
          ELSE WaitLoop(i, record, 0, "wait1.lookup", "tabs.get", "tabs.get")
    /\ UNCHANGED <<inbox, host>>

duplicatedTabId(i) == ValueOf(inv[i].result).duplicatedTabId
duplicatedWindowId(i) == ValueOf(inv[i].result).duplicatedWindowId

\* the lookup of a readiness wait resolves: status 'complete' ends the wait,
\* another status is followed by the sleep
LookupResolved(i, lookup, sleep, after, next) ==
    /\ inv[i].pc = lookup
    /\ duplicatedTabId(i) \in DOMAIN tabs
    /\ IF tabs[duplicatedTabId(i)].status = "complete"
       THEN /\ inv' = [inv EXCEPT ![i].pc = after, ![i].elapsed = 0,
                                 ![i].waits = Append(@, "complete")]
            /\ Call(i, next)
       ELSE /\ inv' = [inv EXCEPT ![i].pc = sleep]
            /\ UNCHANGED calls
    /\ UNCHANGED <<inbox, host>>

\* the lookup of a readiness wait rejects, because the tab is gone or for
\* another reason: the catch ends the wait
\* variant: a failed lookup is followed by the sleep and another lookup
LookupRejected_KeepPolling(i, lookup, after, next) ==
    /\ inv[i].pc = lookup
    /\ inv' = [inv EXCEPT ![i].pc = IF lookup = "wait1.lookup" THEN "wait1.sleep"
                                    ELSE "wait2.sleep"]
    /\ UNCHANGED calls
    /\ UNCHANGED <<inbox, host>>

LookupRejected(i, lookup, after, next) ==
    /\ inv[i].pc = lookup
    /\ inv' = [inv EXCEPT ![i].pc = after, ![i].elapsed = 0,
                          ![i].waits = Append(@, IF duplicatedTabId(i) \in DOMAIN tabs
                                                 THEN "failed" ELSE "gone")]
    /\ Call(i, next)
    /\ UNCHANGED <<inbox, host>>

\* setTimeout(resolve, 100) fires, on time or late
SleepDurations == {POLL_INTERVAL, 10 * POLL_INTERVAL}

SleepDone(i, sleep, lookup, after, next) ==
    /\ inv[i].pc = sleep
    /\ \E d \in SleepDurations :
         WaitLoop(i, inv[i], inv[i].elapsed + d, lookup, after, next)
    /\ UNCHANGED <<inbox, host>>

Wait1LookupResolved(i) == LookupResolved(i, "wait1.lookup", "wait1.sleep", "tabs.get", "tabs.get")
Wait1LookupRejected(i) == LookupRejected(i, "wait1.lookup", "tabs.get", "tabs.get")
Wait1SleepDone(i) == SleepDone(i, "wait1.sleep", "wait1.lookup", "tabs.get", "tabs.get")

TabsGetRejected(i) == Rejected(i, "tabs.get", "tabs.get")

\* chrome.tabs.get resolves: a tab already on translate.google.com is left
\* alone and the request succeeds, else chrome.tabs.update is called
\* variant: the re-read URL is not looked at
TabsGetResolved_AlwaysNavigate(i) ==
    /\ inv[i].pc = "tabs.get"
    /\ duplicatedTabId(i) \in DOMAIN tabs
    /\ LET currentUrl == tabs[duplicatedTabId(i)].url
           record == [inv[i] EXCEPT !.currentUrl = Defined(currentUrl)]
       IN /\ inv' = [inv EXCEPT ![i] = [record EXCEPT !.pc = "tabs.update"]]
          /\ Call(i, "tabs.update")
    /\ UNCHANGED <<inbox, host>>

TabsGetResolved(i) ==
    /\ inv[i].pc = "tabs.get"
    /\ duplicatedTabId(i) \in DOMAIN tabs
    /\ LET currentUrl == tabs[duplicatedTabId(i)].url
           record == [inv[i] EXCEPT !.currentUrl = Defined(currentUrl)]
       IN IF includes(currentUrl, TranslateGoogleCom)
          THEN Respond(i, record, Success) /\ UNCHANGED calls
          ELSE /\ inv' = [inv EXCEPT ![i] = [record EXCEPT !.pc = "tabs.update"]]
               /\ Call(i, "tabs.update")
    /\ UNCHANGED <<inbox, host>>

TabsUpdateRejected(i) == Rejected(i, "tabs.update", "tabs.update")

\* chrome.tabs.update resolves: the tab loads the translate URL; the second
\* readiness wait starts
TabsUpdateResolved(i) ==
    /\ inv[i].pc = "tabs.update"
    /\ duplicatedTabId(i) \in DOMAIN tabs
    /\ tabs' = [tabs EXCEPT ![duplicatedTabId(i)].url = inv[i].translateUrl,
                            ![duplicatedTabId(i)].status = "loading"]
    /\ WaitLoop(i, inv[i], 0, "wait2.lookup", "focus", "windows.update (focus)")
    /\ UNCHANGED <<inbox, windows, storage, focused, created, monitors, displayApi, popup, sync>>

Wait2LookupResolved(i) ==
    LookupResolved(i, "wait2.lookup", "wait2.sleep", "focus", "windows.update (focus)")
Wait2LookupRejected(i) == LookupRejected(i, "wait2.lookup", "focus", "windows.update (focus)")
Wait2SleepDone(i) ==
    SleepDone(i, "wait2.sleep", "wait2.lookup", "focus", "windows.update (focus)")

FocusRejected(i) == Rejected(i, "focus", "windows.update")

\* chrome.windows.update(focused: true) resolves; the request succeeds
FocusResolved(i) ==
    /\ inv[i].pc = "focus"
    /\ duplicatedWindowId(i) \in DOMAIN windows
    /\ focused' = duplicatedWindowId(i)
    /\ Respond(i, inv[i], Success)
    /\ UNCHANGED <<inbox, calls, windows, tabs, storage, created, monitors, displayApi, popup, sync>>

\* ------------------------------------------------------------- environment
\* a tab the extension opened finishes loading
TabLoaded(t) ==
    /\ t \in DOMAIN tabs /\ t # SourceTabId
    /\ tabs[t].status = "loading"
    /\ tabs' = [tabs EXCEPT ![t].status = "complete"]
    /\ UNCHANGED <<inbox, inv, calls, windows, storage, focused, created, monitors, displayApi, popup, sync>>

\* the user closes a window the extension opened, and its tab with it
TabClosed(t) ==
    /\ t \in DOMAIN tabs /\ t # SourceTabId
    /\ tabs' = [u \in DOMAIN tabs \ {t} |-> tabs[u]]
    /\ windows' = [w \in DOMAIN windows \ {tabs[t].windowId} |-> windows[w]]
    /\ UNCHANGED <<inbox, inv, calls, storage, focused, created, monitors, displayApi, popup, sync>>

\* the page of a tab the extension opened redirects itself to a translated
\* rendering of the page
RedirectTargets ==
    { <<"https://", "translate.goog", "le.com", "/translate">>,
      <<"https://", "example-com", ".", "translate.goog", "/path">> }

TabRedirected(t) ==
    /\ t \in DOMAIN tabs /\ t # SourceTabId
    /\ tabs[t].status = "loading"
    /\ ~ includes(tabs[t].url, TranslateGoog)
    /\ \E u \in RedirectTargets : tabs' = [tabs EXCEPT ![t].url = u]
    /\ UNCHANGED <<inbox, inv, calls, windows, storage, focused, created, monitors, displayApi, popup, sync>>

\* ----------------------------------------------------------- specifications
\* the steps of an invocation after its first await
\* the steps of handleSplitView, from the window lookup to the write
handleSplitView(i) ==
    \/ WindowsGetRejected(i)
    \/ WindowsGetResolved(i)
    \/ DisplayInfoResolved(i)
    \/ WindowsCreateRejected(i)
    \/ WindowsCreateResolved(i)
    \/ WindowsUpdateRejected(i)
    \/ WindowsUpdateResolved(i)
    \/ StorageSetRejected(i)
    \/ StorageSetResolved(i)

Proceed(i) ==
    \/ handleSplitView(i)
    \/ StorageGetRejected(i)
    \/ StorageGetResolved(i)
    \/ Wait1LookupResolved(i)
    \/ Wait1LookupRejected(i)
    \/ Wait1SleepDone(i)
    \/ TabsGetRejected(i)
    \/ TabsGetResolved(i)
    \/ TabsUpdateRejected(i)
    \/ TabsUpdateResolved(i)
    \/ Wait2LookupResolved(i)
    \/ Wait2LookupRejected(i)
    \/ Wait2SleepDone(i)
    \/ FocusRejected(i)
    \/ FocusResolved(i)

Step(i) == Receive(i) \/ Proceed(i)

Environment == \E t \in DOMAIN tabs : TabLoaded(t) \/ TabClosed(t) \/ TabRedirected(t)

Next == (\E i \in Invs : Step(i)) \/ Environment

Spec == Init /\ [][Next]_vars

\* every promise of a host call settles and every timer fires: an invocation
\* that can take a step takes one
SpecLive == Spec /\ WF_vars(\E i \in Invs : Step(i))

\* the invocation from the request to the computed rectangles, for every
\* window and every monitor list of the geometry inputs
GeomInit ==
    /\ inbox = << [action |-> "splitAndTranslate",
                   currentTab |-> [kind |-> "tab", id |-> SourceTabId,
                                   url |-> Defined(<<"https://", "example.com">>),
                                   windowId |-> Defined(SourceWindowId)],
                   targetLanguage |-> "ja"] >>
    /\ windows \in {(SourceWindowId :> b) : b \in GeomWindowBounds}
    /\ monitors \in MonitorLists(MaxMonitors)
    /\ displayApi = "ok"
    /\ HostInit

GeomNext == \E i \in Invs : Receive(i) \/ WindowsGetResolved(i) \/ DisplayInfoResolved(i)

SpecGeom == GeomInit /\ [][GeomNext]_vars

\* ------------------------------------------------------------------ claims
Called(i, api) == \E k \in 1..Len(calls) : calls[k] = <<i, api>>

\* invocation i has computed its display area and its two rectangles
LayoutComputed(i) == Called(i, "windows.create")

\* C1: whatever the window bounds and the monitor list, the two rectangles
\* of a split overlap horizontally by exactly 16 pixels.
C1_OverlapIs16 ==
    \A i \in Invs : LayoutComputed(i) =>
        (inv[i].leftPosition.left + inv[i].leftPosition.width) - inv[i].rightPosition.left = 16

C1_Witness ==
    \E i \in Invs :
        /\ LayoutComputed(i)
        /\ Len(inv[i].displays) > 0
        /\ inv[i].displayBounds.width % 2 = 1
        /\ inv[i].rightPosition.left > 0

\* C2: for the display area (left, top, W, H) the left window is
\* {left, top, floor(W/2)+8, H} and the right window is
\* {left+floor(W/2)-8, top, floor(W/2)+8, H}.
C2_Rectangles ==
    \A i \in Invs : LayoutComputed(i) =>
        LET area == inv[i].displayBounds
            l == inv[i].leftPosition
            r == inv[i].rightPosition
            half == l.width - 8
        IN /\ 2 * half <= area.width /\ area.width < 2 * half + 2
           /\ l = [left |-> area.left, top |-> area.top, width |-> half + 8, height |-> area.height]
           /\ r = [left |-> area.left + half - 8, top |-> area.top,
                   width |-> half + 8, height |-> area.height]

C2_Witness ==
    \E i \in Invs :
        /\ LayoutComputed(i)
        /\ inv[i].displayBounds = Rect(1920, 0, 1920, 1080)
        /\ inv[i].leftPosition = Rect(1920, 0, 968, 1080)
        /\ inv[i].rightPosition = Rect(2872, 0, 968, 1080)

C4_MinimumDimensions ==
    \A i \in Invs : LayoutComputed(i) =>
        /\ inv[i].displayBounds.left = inv[i].bounds.left
        /\ inv[i].displayBounds.top = inv[i].bounds.top
        /\ inv[i].displayBounds.width =
              (IF inv[i].bounds.width < 400 THEN 400 ELSE inv[i].bounds.width)
        /\ inv[i].displayBounds.height =
              (IF inv[i].bounds.height < 300 THEN 300 ELSE inv[i].bounds.height)

\* a monitor below both minimums was matched
C4_Witness ==
    \E i \in Invs :
        /\ LayoutComputed(i)
        /\ Len(inv[i].displays) > 0
        /\ inv[i].bounds = Rect(0, 0, 300, 200)
        /\ inv[i].displayBounds = Rect(0, 0, 400, 300)

\* C5: with an empty monitor list the display area is the current window's
\* bounds, each undefined field defaulted on its own (left 0, top 0, width
\* 800, height 600), then clamped; window {100, 50, 200, 150} gives the area
\* 400 x 300 and the left window {100, 50, 208, 300}.
C5_WindowFallback ==
    \A i \in Invs : (LayoutComputed(i) /\ Len(inv[i].displays) = 0) =>
        LET w == inv[i].currentWindow
        IN /\ inv[i].bounds.left = (IF w.left = {} THEN 0 ELSE ValueOf(w.left))
           /\ inv[i].bounds.top = (IF w.top = {} THEN 0 ELSE ValueOf(w.top))
           /\ inv[i].bounds.width = (IF w.width = {} THEN 800 ELSE ValueOf(w.width))
           /\ inv[i].bounds.height = (IF w.height = {} THEN 600 ELSE ValueOf(w.height))
           /\ inv[i].displayBounds.width >= 400 /\ inv[i].displayBounds.height >= 300
           /\ (inv[i].bounds.width >= 400 => inv[i].displayBounds.width = inv[i].bounds.width)
           /\ (inv[i].bounds.height >= 300 => inv[i].displayBounds.height = inv[i].bounds.height)
           /\ (w = Bounds({100}, {50}, {200}, {150}) =>
                 /\ inv[i].displayBounds = Rect(100, 50, 400, 300)
                 /\ inv[i].leftPosition = Rect(100, 50, 208, 300))

\* the width is undefined and defaulted, the other fields are kept
C5_Witness ==
    \E i \in Invs :
        /\ LayoutComputed(i)
        /\ Len(inv[i].displays) = 0
        /\ inv[i].currentWindow = Bounds({100}, {50}, Undefined, {150})
        /\ inv[i].bounds = Rect(100, 50, 800, 150)
        /\ inv[i].displayBounds = Rect(100, 50, 800, 300)

\* C6: the two windows cover the whole width of the display area: the left
\* window starts at its left edge, the left window's right edge is at or
\* beyond the right window's left edge, and the right window's right edge
\* is at or beyond the area's right edge.
C6_CoversDisplayWidth ==
    \A i \in Invs : LayoutComputed(i) =>
        /\ inv[i].leftPosition.left = inv[i].displayBounds.left
        /\ inv[i].leftPosition.left + inv[i].leftPosition.width >= inv[i].rightPosition.left
        /\ inv[i].rightPosition.left + inv[i].rightPosition.width
              >= inv[i].displayBounds.left + inv[i].displayBounds.width

\* ---- validation and window creation, specification Spec
NoCallBy(i) == \A k \in 1..Len(calls) : calls[k][1] # i

\* nothing was created, resized, stored or navigated
HostUntouched ==
    /\ created = 0
    /\ DOMAIN windows = {SourceWindowId}
    /\ DOMAIN tabs = {SourceTabId}
    /\ storage = Undefined

\* the URL begins with one of the six unsupported schemes
HasUnsupportedScheme(url) ==
    /\ Len(url) > 0
    /\ url[1] \in {"chrome://", "edge://", "about:", "chrome-extension://",
                   "edge-extension://", "file://"}

\* the host of a URL: what lies between the scheme and the path or query
PathChunks == {"/a", "?b=1", "?q=", "/path", "/translate", "/translated"}
hostOf(url) ==
    LET after == {k \in 2..Len(url) : url[k] \in PathChunks}
        end == IF after = {} THEN Len(url)
               ELSE (CHOOSE k \in after : \A m \in after : k <= m) - 1
    IN SubSeq(url, 2, end)

\* the page is served by the translation service: translate.goog, one of
\* its subdomains, or translate.google.com
OnTranslationHost(url) ==
    LET h == hostOf(url)
    IN \/ h = <<"translate.goog">>
       \/ h = <<"translate.goog", "le.com">>
       \/ (Len(h) > 2 /\ SubSeq(h, Len(h) - 1, Len(h)) = <<".", "translate.goog">>)

\* C7: a request whose sourceTab is null or undefined, whose URL is absent
\* or whose windowId is not a number fails with the invalid-tab error, and
\* no window is fetched, created or resized and no record is written.
C7_InvalidTabRejected ==
    \A i \in Invs :
        ( /\ inv[i].pc # "idle"
          /\ \/ inv[i].currentTab.kind # "tab"
             \/ inv[i].currentTab.url = Undefined
             \/ inv[i].currentTab.windowId = Undefined )
        => /\ inv[i].pc = "responded"
           /\ inv[i].response = [success |-> FALSE, error |-> InvalidTabError]
           /\ NoCallBy(i)
           /\ HostUntouched

\* C8 as stated: a request whose source URL begins with an unsupported
\* scheme, or is a translate.goog page, fails with the unsupported-page
\* error and nothing is fetched, created, resized, stored or navigated.
C8_UnsupportedRejected ==
    \A i \in Invs :
        ( /\ inv[i].pc # "idle"
          /\ inv[i].currentTab.kind = "tab"
          /\ inv[i].currentTab.url # Undefined
          /\ LET url == ValueOf(inv[i].currentTab.url)
             IN HasUnsupportedScheme(url) \/ OnTranslationHost(url) )
        => /\ inv[i].pc = "responded"
           /\ inv[i].response = [success |-> FALSE, error |-> UnsupportedPageError]
           /\ NoCallBy(i)
           /\ HostUntouched

\* C8, amended: a request whose tab carries a numeric windowId and whose
\* source URL begins with an unsupported scheme, or is a translate.goog
\* page, fails with the unsupported-page error and nothing is fetched,
\* created, resized, stored or navigated.
C8_UnsupportedRejectedWithWindowId ==
    \A i \in Invs :
        ( /\ inv[i].pc # "idle"
          /\ inv[i].currentTab.kind = "tab"
          /\ inv[i].currentTab.windowId # Undefined
          /\ inv[i].currentTab.url # Undefined
          /\ LET url == ValueOf(inv[i].currentTab.url)
             IN HasUnsupportedScheme(url) \/ OnTranslationHost(url) )
        => /\ inv[i].pc = "responded"
           /\ inv[i].response = [success |-> FALSE, error |-> UnsupportedPageError]
           /\ NoCallBy(i)
           /\ HostUntouched

C8_Witness ==
    \E i \in Invs :
        /\ inv[i].pc = "responded"
        /\ inv[i].currentTab.windowId = Defined(SourceWindowId)
        /\ inv[i].currentTab.url = Defined(<<"edge-extension://", "efgh5678/options.html">>)
        /\ inv[i].response.error = UnsupportedPageError

\* C9: a URL is rejected as unsupported only in those cases: a tab with a
\* windowId whose URL neither begins with an unsupported scheme nor is
\* served by the translation service, whatever its path and query hold,
\* passes validation and the source window is fetched.
C9_OnlyThoseRejected ==
    \A i \in Invs :
        ( /\ inv[i].pc # "idle"
          /\ inv[i].currentTab.kind = "tab"
          /\ inv[i].currentTab.windowId # Undefined
          /\ inv[i].currentTab.url # Undefined
          /\ LET url == ValueOf(inv[i].currentTab.url)
             IN Len(url) > 0 /\ ~ HasUnsupportedScheme(url) /\ ~ OnTranslationHost(url) )
        => /\ inv[i].response.error # UnsupportedPageError
           /\ Called(i, "windows.get")

\* C10: when chrome.windows.create returns nothing, or a window without
\* tabs, without a first-tab id or without a window id, the invocation fails
\* with 'Failed to create right window', the source window is not resized
\* and no record is written.
C10_UnusableWindowFails ==
    \A i \in Invs :
        ( /\ inv[i].rightWindow # Unassigned
          /\ LET returned == ValueOf(inv[i].rightWindow)
             IN \/ returned = {}
                \/ ValueOf(returned).tabs = {}
                \/ ValueOf(ValueOf(returned).tabs) = << >>
                \/ ValueOf(ValueOf(returned).tabs)[1].id = {}
                \/ ValueOf(returned).id = {} )
        => /\ inv[i].pc = "responded"
           /\ inv[i].response = [success |-> FALSE, error |-> "Failed to create right window"]
           /\ ~ Called(i, "windows.update")
           /\ ~ Called(i, "storage.set")
           /\ windows[SourceWindowId] = inv[i].currentWindow
           /\ storage = Undefined

C10_Witness ==
    \E i \in Invs :
        /\ inv[i].rightWindow # Unassigned
        /\ ValueOf(inv[i].rightWindow) # Undefined
        /\ ValueOf(ValueOf(inv[i].rightWindow)).id = Undefined
        /\ ValueOf(ValueOf(inv[i].rightWindow)).tabs # Undefined
        /\ inv[i].response.error = WindowCreationError

\* ---- two requests with one host: the popup sends the second request when
\* the first one was answered (its button is disabled meanwhile), or another
\* popup sends it while the first one is still running
TwoRequest(targetLanguage) ==
    [action |-> "splitAndTranslate",
     currentTab |-> [kind |-> "tab", id |-> SourceTabId,
                     url |-> Defined(<<"https://", "example.com">>),
                     windowId |-> Defined(SourceWindowId)],
     targetLanguage |-> targetLanguage]

TwoHostInit ==
    /\ windows = (SourceWindowId :> DefinedBounds(Rect(0, 0, 1920, 1080)))
    /\ monitors = << >>
    /\ displayApi = "ok"
    /\ HostInit

SeqInit ==
    /\ inbox = <<TwoRequest("ja"), TwoRequest("ja")>>
    /\ TwoHostInit

Quiet == \A j \in Invs : inv[j].pc \in {"idle", "responded"}

ReceiveWhenQuiet(i) == Quiet /\ Receive(i)

SeqNext == (\E i \in Invs : ReceiveWhenQuiet(i) \/ Proceed(i)) \/ Environment

SpecSeq == SeqInit /\ [][SeqNext]_vars

\* two requests that may overlap: the listener starts a handler for each
\* message at once.  The behaviours end with the two writes: the steps after
\* them create no window and write no record.
ConcInit ==
    /\ inbox = <<TwoRequest("ja"), TwoRequest("en")>>
    /\ TwoHostInit

ConcNext == (\E i \in Invs : Receive(i) \/ handleSplitView(i)) \/ Environment

SpecConc == ConcInit /\ [][ConcNext]_vars

\* ---- one request, with a local store that another context of the browser
\* (the developer tools, a removal of the extension data) empties or
\* overwrites between the write and the read-back
StorageCleared ==
    /\ storage # Undefined
    /\ storage' \in {Undefined} \cup
                    IF ValueOf(storage).duplicatedTabId = 0 THEN {}
                    ELSE {Defined([ValueOf(storage) EXCEPT !.duplicatedTabId = 0])}
    /\ UNCHANGED <<inbox, inv, calls, windows, tabs, focused, created, monitors, displayApi, popup, sync>>

StoreInit ==
    /\ inbox = <<TwoRequest("ja")>>
    /\ TwoHostInit

StoreNext == Next \/ StorageCleared

SpecStore == StoreInit /\ [][StoreNext]_vars

\* ---- the popup page (popup.ts) in front of the service worker
\* the number of requests sent so far; the n-th request is handled by
\* invocation n
Sent == Len(inbox) + Cardinality({i \in Invs : inv[i].pc # "idle"})

\* DOMContentLoaded: the controls as the page declares them, the stored
\* language requested.  (Bound of the scenario: a page is opened when no
\* request is in progress.)
PopupOpened ==
    /\ ~ popup.open
    /\ inbox = << >> /\ Quiet
    /\ popup' = [ClosedPopup EXCEPT !.open = TRUE, !.load = "pending", !.loadResult = sync]
    /\ UNCHANGED <<inbox, inv, calls, windows, tabs, storage, focused, created, monitors,
                   displayApi, sync>>

\* the callback of chrome.storage.sync.get
LoadCallback ==
    /\ popup.open /\ popup.load = "pending"
    /\ popup' = [popup EXCEPT !.load = "done",
                              !.selection = IF IsDefined(popup.loadResult)
                                            THEN ValueOf(popup.loadResult) ELSE @]
    /\ UNCHANGED <<inbox, inv, calls, windows, tabs, storage, focused, created, monitors,
                   displayApi, sync>>

\* the change listener of the language select
SelectionChanged(l) ==
    /\ popup.open /\ l # popup.selection
    /\ popup' = [popup EXCEPT !.selection = l, !.changed = TRUE]
    /\ sync' = Defined(l)
    /\ UNCHANGED <<inbox, inv, calls, windows, tabs, storage, focused, created, monitors,
                   displayApi>>

\* variant: the button stays enabled while the handler runs
Click_NotDisabled ==
    /\ popup.open /\ ~ popup.disabled /\ Len(popup.handlers) < MaxClicks
    /\ popup' = [popup EXCEPT !.ariaBusy = TRUE,
                              !.handlers = Append(@, [pc |-> "tabs.query", request |-> 0])]
    /\ UNCHANGED <<inbox, inv, calls, windows, tabs, storage, focused, created, monitors,
                   displayApi, sync>>

\* the click listener up to its first await; a disabled button gets no click
Click ==
    /\ popup.open /\ ~ popup.disabled /\ Len(popup.handlers) < MaxClicks
    /\ popup' = [popup EXCEPT !.disabled = TRUE, !.ariaBusy = TRUE,
                              !.handlers = Append(@, [pc |-> "tabs.query", request |-> 0])]
    /\ UNCHANGED <<inbox, inv, calls, windows, tabs, storage, focused, created, monitors,
                   displayApi, sync>>

\* catch and finally of the click listener
Finish(k, answered) ==
    popup' = [popup EXCEPT !.handlers = SubSeq(@, 1, k - 1) \o SubSeq(@, k + 1, Len(@)),
                           !.disabled = FALSE, !.ariaBusy = FALSE,
                           !.answered = @ \/ answered]

\* chrome.tabs.query rejects, or resolves without a tab
TabsQueryFailed(k) ==
    /\ popup.open /\ k \in DOMAIN popup.handlers /\ popup.handlers[k].pc = "tabs.query"
    /\ Finish(k, FALSE)
    /\ UNCHANGED <<inbox, inv, calls, windows, tabs, storage, focused, created, monitors,
                   displayApi, sync>>

\* chrome.tabs.query resolves with the tab and the message is sent with the
\* language selected at this moment
TabsQueryResolved(k) ==
    /\ popup.open /\ k \in DOMAIN popup.handlers /\ popup.handlers[k].pc = "tabs.query"
    /\ Sent < MaxRequests /\ Sent < MaxInvocations
    /\ inbox' = Append(inbox, TwoRequest(popup.selection))
    /\ popup' = [popup EXCEPT !.handlers[k] = [pc |-> "sendMessage", request |-> Sent + 1]]
    /\ UNCHANGED <<inv, calls, windows, tabs, storage, focused, created, monitors,
                   displayApi, sync>>

\* chrome.runtime.sendMessage rejects: no listener got the message
SendMessageRejected(k) ==
    /\ popup.open /\ k \in DOMAIN popup.handlers /\ popup.handlers[k].pc = "tabs.query"
    /\ Finish(k, FALSE)
    /\ UNCHANGED <<inbox, inv, calls, windows, tabs, storage, focused, created, monitors,
                   displayApi, sync>>

\* the response of the worker arrives: a success schedules the close of the
\* page, a failure is thrown and caught; both end in the finally block
ResponseReceived(k) ==
    /\ popup.open /\ k \in DOMAIN popup.handlers /\ popup.handlers[k].pc = "sendMessage"
    /\ inv[popup.handlers[k].request].pc = "responded"
    /\ Finish(k, TRUE)
    /\ UNCHANGED <<inbox, inv, calls, windows, tabs, storage, focused, created, monitors,
                   displayApi, sync>>

\* window.close(): the Escape key, the scheduled close after a success, or the
\* browser closing the page; its handlers end with it
PopupClosed ==
    /\ popup.open
    /\ popup' = ClosedPopup
    /\ UNCHANGED <<inbox, inv, calls, windows, tabs, storage, focused, created, monitors,
                   displayApi, sync>>

PopupStep ==
    \/ PopupOpened
    \/ LoadCallback
    \/ \E l \in Languages : SelectionChanged(l)
    \/ Click
    \/ \E k \in 1..MaxClicks :
          TabsQueryFailed(k) \/ TabsQueryResolved(k) \/ SendMessageRejected(k)
              \/ ResponseReceived(k)
    \/ PopupClosed

PopupInit ==
    /\ inbox = << >>
    /\ TwoHostInit

PopupNext == PopupStep \/ (\E i \in Invs : Step(i))

SpecPopup == PopupInit /\ [][PopupNext]_vars

\* two overlapping requests up to the read-back of the record, which fixes
\* the tab and the window the rest of an invocation works on
RaceNext ==
    \E i \in Invs : Receive(i) \/ handleSplitView(i) \/ StorageGetRejected(i)
                        \/ StorageGetResolved(i)

SpecRace == ConcInit /\ [][RaceNext]_vars

\* ---- the orchestration sequence, specification Spec
\* the host calls of invocation i, in the order they were issued
RECURSIVE CallsOf(_, _)
CallsOf(i, log) ==
    IF log = << >> THEN << >>
    ELSE IF Head(log)[1] = i THEN <<Head(log)[2]>> \o CallsOf(i, Tail(log))
    ELSE CallsOf(i, Tail(log))

\* the position of an invocation in the sequence of its operations
Stage(pc) ==
    CASE pc = "idle" -> 0
      [] pc = "windows.get" -> 1
      [] pc = "getDisplayInfo" -> 2
      [] pc = "windows.create" -> 3
      [] pc = "windows.update" -> 4
      [] pc = "storage.set" -> 5
      [] pc = "storage.get" -> 6
      [] pc \in {"wait1.lookup", "wait1.sleep"} -> 7
      [] pc = "tabs.get" -> 8
      [] pc = "tabs.update" -> 9
      [] pc \in {"wait2.lookup", "wait2.sleep"} -> 10
      [] pc = "focus" -> 11
      [] pc = "responded" -> 12

\* C11: within one invocation the host operations happen in this order, each
\* started only after the previous one has completed successfully: create
\* the duplicate window, resize the original window, write the record,
\* first readiness wait, update the duplicated tab, second readiness wait,
\* focus the duplicated window, success.  The record is never written before
\* the duplicate window exists and the duplicated window is never focused
\* before the navigation was issued.
C11_OperationOrder ==
    [][ \A i \in Invs :
          LET a == Stage(inv[i].pc)
              b == Stage(inv'[i].pc)
              src == ValueOf(inv[i].currentTab.windowId)
          IN /\ (b = a \/ b = a + 1 \/ b = 12)
             \* resize starts: the duplicate window was created
             /\ (a = 3 /\ b = 4) =>
                   /\ created' = created + 1
                   /\ ValueOf(ValueOf(ValueOf(inv'[i].rightWindow)).id) \in DOMAIN windows'
             \* the write starts: the original window has the left rectangle
             /\ (a = 4 /\ b = 5) => windows'[src] = DefinedBounds(inv[i].leftPosition)
             \* the write is done only then, and the window it names was created
             /\ (storage' # storage) =>
                   /\ \E j \in Invs : Stage(inv[j].pc) = 5 /\ Stage(inv'[j].pc) = 6
                   /\ ValueOf(storage').duplicatedWindowId \in
                          (SourceWindowId + 1)..(SourceWindowId + created)
             \* the first wait starts after the write
             /\ (a # 7 /\ b = 7) => (a = 6 /\ storage # Undefined)
             \* the tab is updated after the first wait
             /\ (a # 9 /\ b = 9) => (a = 8 /\ Len(inv[i].waits) = 1)
             \* the second wait starts when the tab has the translate URL
             /\ (a # 10 /\ b = 10) =>
                   (a = 9 /\ tabs'[duplicatedTabId(i)].url = inv[i].translateUrl)
             \* the focus call follows the second wait
             /\ (a # 11 /\ b = 11) => (a = 10 /\ Len(inv'[i].waits) = 2)
             \* the focus changes only after the navigation was issued
             /\ (focused' # focused) => \E j \in Invs : Called(j, "tabs.update") /\ Stage(inv[j].pc) = 11
             \* success is answered from the focus step (or by the skip after the re-read)
             /\ (b = 12 /\ a # 12 /\ inv'[i].response.success) => a \in {8, 11}
      ]_vars

C11_Witness ==
    \E i \in Invs :
        /\ inv[i].pc = "responded" /\ inv[i].response.success
        /\ CallsOf(i, calls) = << "windows.get", "system.display.getInfo", "windows.create",
                                  "windows.update", "storage.set", "storage.get", "tabs.get",
                                  "tabs.update", "windows.update (focus)" >>
        /\ focused = duplicatedWindowId(i)
        /\ storage # Undefined

\* the host APIs the service worker calls
HostApis ==
    { "windows.get", "system.display.getInfo", "windows.create", "windows.update",
      "storage.set", "storage.get", "tabs.get", "tabs.update", "windows.update (focus)" }

\* the window a create call of invocation i returned
createdWindowId(i) == ValueOf(ValueOf(ValueOf(inv[i].rightWindow)).id)

\* C12: there is no rollback.  When resizing the original window fails after
\* the duplicate window was created, the invocation fails with that error,
\* the duplicate window is left open (no close or remove call is ever made)
\* and the stored record is left exactly as it was.
C12_NoRollback ==
    [][ /\ \A i \in Invs :
             (inv[i].pc = "windows.update" /\ inv'[i].pc # "windows.update"
                  /\ ~ Called(i, "storage.set")') =>
                /\ inv'[i].pc = "responded"
                /\ inv'[i].response = Failure(HostError("windows.update"))
                /\ storage' = storage
                /\ windows' = windows /\ tabs' = tabs /\ focused' = focused
                /\ calls' = calls
        \* an answered invocation does nothing more
        /\ \A i \in Invs : inv[i].pc = "responded" => inv'[i] = inv[i]
        \* the only way a window disappears is the user closing it
        /\ (DOMAIN windows' # DOMAIN windows) =>
               (DOMAIN windows \subseteq DOMAIN windows' \/ (inv' = inv /\ calls' = calls))
        /\ \A k \in 1..Len(calls') : calls'[k][2] \in HostApis
      ]_vars

C12_Witness ==
    \E i \in Invs :
        /\ inv[i].pc = "responded"
        /\ inv[i].response = Failure(HostError("windows.update"))
        /\ CallsOf(i, calls) = <<"windows.get", "system.display.getInfo",
                                 "windows.create", "windows.update">>
        /\ createdWindowId(i) \in DOMAIN windows
        /\ storage # Undefined
        /\ ValueOf(storage).duplicatedWindowId # createdWindowId(i)

\* ---- the readiness waits
\* a readiness wait of invocation i ended at the ceiling
Expired(i) == \E k \in 1..Len(inv[i].waits) : inv[i].waits[k] = "expired"

\* the host API whose promise an invocation at pc awaits
apiOf(pc) == IF pc = "focus" THEN "windows.update" ELSE pc

\* a wait ends at the ceiling only, and the invocation goes on to the next step
ExpiryGoesOn(i) ==
    (Len(inv'[i].waits) > Len(inv[i].waits)
         /\ inv'[i].waits[Len(inv'[i].waits)] = "expired") =>
       /\ \E d \in SleepDurations : inv[i].elapsed + d >= MAX_WAIT_TIME
       /\ \/ inv[i].pc = "wait1.sleep" /\ inv'[i].pc = "tabs.get"
          \/ inv[i].pc = "wait2.sleep" /\ inv'[i].pc = "focus"

\* the awaited host call rejects and the request is answered with its error
AnsweredRejection(i) ==
    /\ inv'[i].response = Failure(HostError(apiOf(inv[i].pc)))
    /\ UNCHANGED host

\* the focus call resolves: the tab was navigated, the window is focused
AnsweredFocused(i) ==
    /\ inv[i].pc = "focus"
    /\ inv'[i].response = Success
    /\ Called(i, "tabs.update")
    /\ tabs[duplicatedTabId(i)].url = inv[i].translateUrl
    /\ focused' = duplicatedWindowId(i)

\* the re-read URL is a Google Translate page: success without navigation
AnsweredSkipped(i) ==
    /\ inv[i].pc = "tabs.get"
    /\ inv'[i].response = Success
    /\ includes(ValueOf(inv'[i].currentUrl), TranslateGoogleCom)
    /\ ~ Called(i, "tabs.update")
    /\ UNCHANGED host

Answering(i) == inv[i].pc # "responded" /\ inv'[i].pc = "responded"

\* C13 as stated: expiry of a readiness wait (first or second) is not an
\* error; the invocation goes on to the next step and, all other host calls
\* succeeding, the duplicated tab is navigated to the translate URL, the
\* duplicated window is focused and the request is answered with success.
C13_ExpiryThenTranslated ==
    [][ \A i \in Invs :
          /\ ExpiryGoesOn(i)
          /\ (Expired(i) /\ Answering(i)) => (AnsweredRejection(i) \/ AnsweredFocused(i))
      ]_vars

\* C13, amended: ... unless the URL re-read after the first wait already is
\* a Google Translate page; then the request is answered with success and
\* the tab is neither navigated nor focused.
C13_ExpiryThenTranslatedOrSkipped ==
    [][ \A i \in Invs :
          /\ ExpiryGoesOn(i)
          /\ (Expired(i) /\ Answering(i)) =>
                (AnsweredRejection(i) \/ AnsweredFocused(i) \/ AnsweredSkipped(i))
      ]_vars

C13_Witness ==
    \E i \in Invs :
        /\ inv[i].pc = "responded" /\ inv[i].response = Success
        /\ inv[i].waits = <<"expired", "expired">>
        /\ Called(i, "tabs.update")
        /\ focused = duplicatedWindowId(i)

\* a lookup of a readiness wait of invocation i failed on a closed tab
TabGone(i) == \E k \in 1..Len(inv[i].waits) : inv[i].waits[k] = "gone"

\* C14: if the duplicated tab is closed by the user while it is polled, the
\* polling stops immediately and the whole operation does not fail: the
\* request is not answered with {success:false}.
C14_ClosedTabDoesNotFail ==
    \A i \in Invs :
        (TabGone(i) /\ inv[i].pc = "responded") => inv[i].response.success

\* ---- the re-read and the navigation
\* the URL is a page of translate.google.com
OnTranslateGoogleCom(url) == hostOf(url) = TranslateGoogleCom

\* C15: after the first readiness wait the duplicated tab's URL is re-read;
\* if it already is a Google Translate page the invocation stops there and
\* reports success: the tab is not updated to the translate URL, there is no
\* second wait and the duplicated window is not focused.
C15_SkipWhenTranslated ==
    [][ \A i \in Invs :
          (inv[i].pc = "tabs.get" /\ inv'[i].pc # "tabs.get"
               /\ duplicatedTabId(i) \in DOMAIN tabs
               /\ OnTranslateGoogleCom(tabs[duplicatedTabId(i)].url)) =>
             \/ AnsweredRejection(i)
             \/ /\ Len(inv[i].waits) = 1
                /\ inv'[i].currentUrl = Defined(tabs[duplicatedTabId(i)].url)
                /\ inv'[i].pc = "responded" /\ inv'[i].response = Success
                /\ inv'[i].waits = inv[i].waits
                /\ ~ Called(i, "tabs.update")' /\ ~ Called(i, "windows.update (focus)")'
                /\ tabs' = tabs /\ focused' = focused /\ calls' = calls
      ]_vars

C15_Witness ==
    \E i \in Invs :
        /\ inv[i].pc = "responded" /\ inv[i].response = Success
        /\ IsDefined(inv[i].currentUrl)
        /\ OnTranslateGoogleCom(ValueOf(inv[i].currentUrl))
        /\ CallsOf(i, calls) = <<"windows.get", "system.display.getInfo", "windows.create",
                                 "windows.update", "storage.set", "storage.get", "tabs.get">>
        /\ focused = SourceWindowId

\* the number of chrome.tabs.update calls of invocation i
Navigations(i) == Cardinality({k \in 1..Len(calls) : calls[k] = <<i, "tabs.update">>})

\* the percent-encoded form of the URLs that contain reserved characters
\* only in their scheme separator, path and query chunks
Encoded(url) ==
    CASE url = <<"https://", "example.com">> -> <<"https%3A%2F%2F", "example.com">>
      [] url = <<"http://", "example.org">> -> <<"http%3A%2F%2F", "example.org">>
      [] url = <<"https://", "example.com", "/a", "?b=1">> ->
             <<"https%3A%2F%2F", "example.com", "%2Fa", "%3Fb%3D1">>
      [] url = <<"https://", "example.com", "/a", "?q=", "chrome://">> ->
             <<"https%3A%2F%2F", "example.com", "%2Fa", "%3Fq%3D", "chrome%3A%2F%2F">>

\* C16: whenever an invocation navigates the duplicated tab, the URL it sets
\* is exactly 'https://translate.google.com/translate?sl=auto&tl=' +
\* targetLanguage + '&u=' + encodeURIComponent(source URL), with the
\* language and the source URL of the request (not the tab's current URL),
\* and the tab is updated exactly once per invocation.
C16_TranslateUrl ==
    [][ /\ \A i \in Invs :
             /\ (inv[i].pc = "tabs.update" /\ inv'[i].pc \notin {"tabs.update", "responded"}) =>
                   LET t == duplicatedTabId(i)
                       source == ValueOf(inv[i].currentTab.url)
                   IN /\ Navigations(i) = 1
                      /\ DOMAIN tabs' = DOMAIN tabs
                      /\ \A u \in DOMAIN tabs \ {t} : tabs'[u] = tabs[u]
                      /\ tabs'[t].windowId = tabs[t].windowId
                      /\ tabs'[t].url =
                             <<"https://", "translate.goog", "le.com", "/translate",
                               "?sl=auto&tl=", inv[i].targetLanguage, "&u=">> \o Encoded(source)
             /\ Navigations(i)' <= 1
             /\ (inv'[i].pc \in {"wait2.lookup", "wait2.sleep", "focus"}) => Navigations(i)' = 1
        \* no other step of an invocation changes the URL of a tab
        /\ (inv' # inv /\ \E t \in DOMAIN tabs \cap DOMAIN tabs' : tabs'[t].url # tabs[t].url) =>
               \E i \in Invs : inv[i].pc = "tabs.update" /\ inv'[i] # inv[i]
      ]_vars

\* the example of the specification, on a tab that meanwhile shows another URL
C16_Witness ==
    \E i \in Invs :
        /\ inv[i].pc = "responded" /\ inv[i].response = Success
        /\ inv[i].currentTab.url = Defined(<<"https://", "example.com", "/a", "?b=1">>)
        /\ inv[i].targetLanguage = "ja"
        /\ IsDefined(inv[i].currentUrl)
        /\ ValueOf(inv[i].currentUrl) # ValueOf(inv[i].currentTab.url)
        /\ Navigations(i) = 1
        /\ tabs[duplicatedTabId(i)].url =
               <<"https://", "translate.goog", "le.com", "/translate", "?sl=auto&tl=", "ja",
                 "&u=", "https%3A%2F%2F", "example.com", "%2Fa", "%3Fb%3D1">>

\* ---- errors and responses
\* the errors the worker throws itself
ThrownErrors ==
    { TypeErrorNull, TypeErrorUndefined, InvalidTabError, UnsupportedPageError,
      WindowCreationError, SessionNotFoundError }

\* the last host call invocation i has issued
LastCall(i) == CallsOf(i, calls)[Len(CallsOf(i, calls))]

\* C17: when a host API call of an invocation rejects (window get, create,
\* update, storage set, get, tab get after polling, tab update), the
\* invocation issues no further host call, retries nothing, and the request
\* is answered with {success:false, error: m}, m being the message of the
\* error the failing call raised.
C17_RejectionAnswered ==
    [][ \A i \in Invs :
          \* a failure that the worker did not throw itself is the rejection
          \* of the call it awaited, which is the last one it issued
          /\ (Answering(i) /\ ~ inv'[i].response.success
                  /\ inv'[i].response.error \notin ThrownErrors) =>
                /\ inv[i].pc \in {"windows.get", "windows.create", "windows.update",
                                  "storage.set", "storage.get", "tabs.get", "tabs.update",
                                  "focus"}
                /\ inv'[i].response = Failure(HostError(apiOf(inv[i].pc)))
                /\ apiOf(inv[i].pc) = apiOf(IF LastCall(i) = "windows.update (focus)"
                                            THEN "focus" ELSE LastCall(i))
                /\ calls' = calls
                /\ UNCHANGED host
          \* success is answered only at the end or at the skip
          /\ (Answering(i) /\ inv'[i].response.success) => inv[i].pc \in {"tabs.get", "focus"}
          \* after the answer: no further call, no retry
          /\ (inv[i].pc = "responded") =>
                (inv'[i] = inv[i] /\ CallsOf(i, calls') = CallsOf(i, calls))
          \* no host call is issued twice
          /\ \A k, m \in 1..Len(calls') : (calls'[k] = calls'[m] /\ calls'[k][1] = i) => k = m
      ]_vars

C17_Witness ==
    \E i \in Invs :
        /\ inv[i].pc = "responded"
        /\ inv[i].response = Failure(HostError("tabs.update"))
        /\ CallsOf(i, calls) = <<"windows.get", "system.display.getInfo", "windows.create",
                                 "windows.update", "storage.set", "storage.get", "tabs.get",
                                 "tabs.update">>
        /\ duplicatedTabId(i) \in DOMAIN tabs
        /\ tabs[duplicatedTabId(i)].url = ValueOf(inv[i].currentTab.url)

\* the error messages a response can carry
ErrorMessages ==
    ThrownErrors \cup { HostError(api) : api \in HostApis }

Responded == {i \in Invs : inv[i].pc = "responded"}

\* C18: if every host call eventually resolves or rejects and time advances,
\* a splitAndTranslate request eventually receives exactly one response,
\* which is {success:true} or {success:false, error:<string>}; neither
\* polling loop keeps the invocation beyond its ceiling.
C18_ExactlyOneResponse ==
    /\ <>(inbox = << >> /\ Cardinality(Responded) = 1 /\ Quiet)
    /\ [][ \A i \in Invs :
             /\ (inv[i].pc # "responded") => inv[i].response = NoResponse
             /\ (inv[i].pc = "responded") => inv'[i] = inv[i]
             /\ Answering(i) =>
                   \/ inv'[i].response = Success
                   \/ /\ ~ inv'[i].response.success
                      /\ inv'[i].response.error \in ErrorMessages
             /\ (inv'[i].pc \in {"wait1.lookup", "wait1.sleep", "wait2.lookup", "wait2.sleep"})
                   => inv'[i].elapsed < MAX_WAIT_TIME
         ]_vars

\* a request answered after a second wait that ran up to the ceiling
C18_Witness ==
    \E i \in Invs :
        /\ inv[i].pc = "responded"
        /\ inbox = << >>
        /\ Len(inv[i].waits) = 2 /\ inv[i].waits[2] = "expired"
        /\ inv[i].response \in {Success, Failure(HostError("windows.update"))}

\* ---- the stored record over several invocations
\* invocation i has written its record
Wrote(i) == Called(i, "storage.get")

\* C19: running splitAndTranslate twice, one run after the other with the
\* same inputs, creates two distinct duplicate windows (one per run), and
\* afterwards the single stored record holds exactly the identifiers of the
\* second run: it is replaced wholesale, nothing of the first run's record
\* remains, records do not accumulate.
C19_SecondRunReplaces ==
    \A i, j \in Invs :
        (i < j /\ Wrote(i) /\ Wrote(j)) =>
            /\ inv[i].currentTab = inv[j].currentTab
            /\ inv[i].targetLanguage = inv[j].targetLanguage
            /\ inv[i].pc = "responded"
            /\ created = 2
            /\ createdWindowId(i) # createdWindowId(j)
            /\ splitViewDataOf(inv[i]).duplicatedTabId # splitViewDataOf(inv[j]).duplicatedTabId
            /\ storage = Defined(splitViewDataOf(inv[j]))
            /\ ValueOf(storage).duplicatedWindowId = createdWindowId(j)
            /\ ValueOf(storage).duplicatedWindowId # createdWindowId(i)
            /\ ValueOf(storage).duplicatedTabId # splitViewDataOf(inv[i]).duplicatedTabId

C19_Witness ==
    /\ \A i \in 1..2 : inv[i].pc = "responded" /\ inv[i].response = Success /\ Wrote(i)
    /\ {createdWindowId(1), createdWindowId(2)} \subseteq DOMAIN windows
    /\ createdWindowId(1) # createdWindowId(2)
    /\ storage = Defined(splitViewDataOf(inv[2]))
    /\ focused = createdWindowId(2)

\* the invocation whose write was the last one
LastWriter ==
    LET writes == {k \in 1..Len(calls) : calls[k][2] = "storage.get"}
    IN calls[CHOOSE k \in writes : \A m \in writes : m <= k][1]

\* C20: invocations are not serialized.  When two requests overlap, each
\* creates its own duplicate window (two windows in total); once both have
\* written, the stored record equals in all five fields the record of the
\* invocation that wrote last; in every reachable state the fields of the
\* stored record all come from one single invocation.
C20_LastWriterWins ==
    /\ (storage = Undefined) <=> (\A i \in Invs : ~ Wrote(i))
    /\ (storage # Undefined) =>
          /\ storage = Defined(splitViewDataOf(inv[LastWriter]))
          /\ \A i \in Invs \ {LastWriter} :
                Wrote(i) => /\ ValueOf(storage).duplicatedTabId # splitViewDataOf(inv[i]).duplicatedTabId
                            /\ ValueOf(storage).duplicatedWindowId # createdWindowId(i)
                            /\ ValueOf(storage).targetLanguage # inv[i].targetLanguage
    /\ \A i, j \in Invs :
          (i # j /\ Wrote(i) /\ Wrote(j)) =>
              (created = 2 /\ createdWindowId(i) # createdWindowId(j))

\* both requests run at the same time, and the first one writes last
C20_Witness ==
    /\ Wrote(1) /\ Wrote(2)
    /\ inv[1].pc = "storage.get" /\ inv[2].pc = "storage.get"
    /\ LastWriter = 1
    /\ storage = Defined(splitViewDataOf(inv[1]))
    /\ ValueOf(storage).targetLanguage = "ja"
    /\ createdWindowId(1) > createdWindowId(2)
    /\ {createdWindowId(1), createdWindowId(2)} \subseteq DOMAIN windows

\* ---- the read-back of the record
\* what chrome.storage.local.get would give has no usable record
RecordMissing == storage = Undefined \/ ValueOf(storage).duplicatedTabId = 0

\* C21: if the record read back after the split is missing or has no
\* duplicatedTabId, the invocation fails with 'Split view data not found'
\* without polling, navigating or focusing anything, and the read is not
\* retried.
C21_SessionNotFound ==
    [][ \A i \in Invs :
          /\ (inv[i].pc = "storage.get" /\ inv'[i] # inv[i] /\ RecordMissing) =>
                /\ inv'[i].pc = "responded"
                /\ \/ inv'[i].response = Failure(SessionNotFoundError)
                   \/ inv'[i].response = Failure(HostError("storage.get"))
                /\ inv'[i].waits = << >>
                /\ calls' = calls
                /\ UNCHANGED host
          /\ (inv'[i].pc = "responded" /\ inv'[i].response = Failure(SessionNotFoundError)) =>
                /\ CallsOf(i, calls') = <<"windows.get", "system.display.getInfo",
                                          "windows.create", "windows.update",
                                          "storage.set", "storage.get">>
                /\ inv'[i].waits = << >> /\ inv'[i].currentUrl = Undefined
                /\ focused' = SourceWindowId
                /\ inv'[i].result = Undefined \/ ValueOf(inv'[i].result).duplicatedTabId = 0
      ]_vars

C21_Witness ==
    \E i \in Invs :
        /\ inv[i].pc = "responded"
        /\ inv[i].response = Failure(SessionNotFoundError)
        /\ inv[i].result # Undefined
        /\ ValueOf(inv[i].result).duplicatedTabId = 0
        /\ createdWindowId(i) \in DOMAIN windows

\* C22: the stored window data is temporary: when the request has been
\* answered and nothing of the extension runs any more (the extension is
\* closed), no session record remains in the local store.
C22_RecordIsTemporary ==
    (inbox = << >> /\ Quiet /\ Responded # {}) => storage = Undefined

\* ---- the popup page
\* C23: the Split + Translate button is disabled and aria-busy from the click
\* until the outcome of the request is known, so a popup never has two
\* requests outstanding; after every outcome (success, failure, no current
\* tab, a rejected tabs.query or sendMessage) it is enabled again and
\* aria-busy is removed.
C23_ButtonDisabledWhileBusy ==
    popup.open =>
        /\ Len(popup.handlers) <= 1
        /\ popup.disabled <=> (popup.handlers # << >>)
        /\ popup.ariaBusy <=> (popup.handlers # << >>)
        /\ \A k \in DOMAIN popup.handlers :
              popup.handlers[k].pc = "sendMessage" => popup.handlers[k].request = Sent

\* a click after a failure response has arrived in this page
C23_Witness ==
    /\ popup.open /\ popup.answered
    /\ inv[1].pc = "responded" /\ ~ inv[1].response.success
    /\ Len(popup.handlers) = 1 /\ popup.handlers[1].pc = "tabs.query"
    /\ popup.disabled /\ popup.ariaBusy

\* the language the synced store holds, 'ja' (the selected option of the
\* page) when it holds none
StoredLanguage == IF IsDefined(sync) THEN ValueOf(sync) ELSE "ja"

\* C24: every change of the language selection overwrites the single stored
\* targetLanguage with the newly selected code; a popup opened afterwards
\* shows the last stored code as its selection, and sends that code as
\* targetLanguage when the button is clicked without a further change; with
\* nothing stored the selection stays 'ja'.
C24_LanguageRoundTrip ==
    [][ \* the store changes only by a change of the selection, to the new code
        /\ (sync' # sync) =>
              (popup'.changed /\ popup'.selection # popup.selection
                  /\ sync' = Defined(popup'.selection))
        \* a change of the selection by the user is stored
        /\ (popup.open /\ popup'.open /\ popup'.selection # popup.selection
                /\ popup'.load = popup.load) => sync' = Defined(popup'.selection)
        \* the page shows the stored code once it has loaded it
        /\ (popup'.open /\ popup'.load = "done" /\ ~ popup'.changed) =>
              popup'.selection = StoredLanguage'
        \* a request sent without a change in this page carries the stored code
        /\ (Len(inbox') > Len(inbox) /\ ~ popup.changed) =>
              inbox'[Len(inbox')].targetLanguage = StoredLanguage
      ]_vars

\* ---- monitor enumeration
\* C25: monitor enumeration never fails an invocation: getDisplayInfo yields
\* the empty list when the display API is absent or the host reports
\* lastError, and the host's list otherwise; with the empty list the
\* invocation continues with the geometry of the current window.
C25_EnumerationNeverFails ==
    [][ \A i \in Invs :
          (inv[i].pc = "getDisplayInfo" /\ inv'[i] # inv[i]) =>
             /\ inv'[i].pc = "windows.create"
             /\ inv'[i].response = NoResponse
             /\ inv'[i].displays = IF displayApi \in {"absent", "lastError"}
                                   THEN << >> ELSE monitors
             /\ (inv'[i].displays = << >>) =>
                   LET w == inv[i].currentWindow
                   IN inv'[i].bounds =
                         [left |-> IF IsDefined(w.left) THEN ValueOf(w.left) ELSE 0,
                          top |-> IF IsDefined(w.top) THEN ValueOf(w.top) ELSE 0,
                          width |-> IF IsDefined(w.width) THEN ValueOf(w.width)
                                    ELSE DEFAULT_WINDOW_WIDTH,
                          height |-> IF IsDefined(w.height) THEN ValueOf(w.height)
                                     ELSE DEFAULT_WINDOW_HEIGHT]
      ]_vars

\* the host reports lastError although it has monitors, and the split succeeds
C25_Witness ==
    \E i \in Invs :
        /\ displayApi = "lastError" /\ monitors # << >>
        /\ inv[i].pc = "responded" /\ inv[i].response = Success
        /\ inv[i].displays = << >>
        /\ Called(i, "system.display.getInfo")

\* ---- waitForTabReady
Lookups == {"wait1.lookup", "wait2.lookup"}
Sleeps == {"wait1.sleep", "wait2.sleep"}

\* the last entry of the wait history of invocation i, after a step that
\* ended a wait
EndedAs(i, how) ==
    /\ Len(inv'[i].waits) = Len(inv[i].waits) + 1
    /\ inv'[i].waits[Len(inv'[i].waits)] = how

\* C26: waitForTabReady always completes without raising an error, in one of
\* three ways: right after a lookup that reports 'complete', right after a
\* lookup that fails, or once the time since its start is at least
\* maxWaitTime; there is no lookup after a 'complete' result or a failed
\* lookup, and it sleeps 100 ms between consecutive lookups.
C26_WaitCompletes ==
    \* no wait goes on for ever
    /\ []<>(\A i \in Invs : inv[i].pc \notin Lookups \cup Sleeps)
    /\ [][ \A i \in Invs :
             \* a wait ends in one of the three ways, and the invocation goes on
             /\ (inv[i].pc \in Lookups \cup Sleeps /\ inv'[i].pc \notin Lookups \cup Sleeps) =>
                   /\ inv'[i].pc = IF inv[i].pc \in {"wait1.lookup", "wait1.sleep"}
                                   THEN "tabs.get" ELSE "focus"
                   /\ inv'[i].response = NoResponse
                   /\ \/ /\ EndedAs(i, "complete") /\ inv[i].pc \in Lookups
                         /\ tabs[duplicatedTabId(i)].status = "complete"
                      \/ /\ (EndedAs(i, "failed") \/ EndedAs(i, "gone"))
                         /\ inv[i].pc \in Lookups
                      \/ /\ EndedAs(i, "expired") /\ inv[i].pc \in Sleeps
                         /\ \E d \in SleepDurations : inv[i].elapsed + d >= MAX_WAIT_TIME
             \* the history grows only when a wait ends
             /\ (inv'[i].waits # inv[i].waits) => inv[i].pc \in Lookups \cup Sleeps
             \* a lookup is followed by the sleep only if the tab is still loading
             /\ (inv[i].pc \in Lookups /\ inv'[i].pc \in Sleeps) =>
                   /\ duplicatedTabId(i) \in DOMAIN tabs
                   /\ tabs[duplicatedTabId(i)].status # "complete"
                   /\ inv'[i].elapsed = inv[i].elapsed
             \* a lookup is never followed by a lookup
             /\ (inv[i].pc \in Lookups /\ inv'[i] # inv[i]) => inv'[i].pc \notin Lookups
             \* between two lookups the loop sleeps at least 100 ms
             /\ (inv[i].pc \in Sleeps /\ inv'[i].pc \in Lookups) =>
                   /\ inv'[i].elapsed >= inv[i].elapsed + POLL_INTERVAL
                   /\ inv'[i].elapsed < MAX_WAIT_TIME
         ]_vars

\* a wait that ended on a closed tab after having slept
C26_Witness ==
    \E i \in Invs :
        /\ inv[i].waits = <<"gone">>
        /\ inv[i].pc = "tabs.get"
        /\ duplicatedTabId(i) \notin DOMAIN tabs
        /\ inv[i].response = NoResponse

\* ---- the duplicated tab on the translation domain
\* C27: translate-of-translate is prevented on the duplicated tab too: if by
\* the end of the first readiness wait the duplicated tab has landed on a
\* page of the translation rendering domain (a translate.goog URL, which the
\* validation would reject), the invocation does not navigate that tab to a
\* translate URL.
C27_NoTranslateOfTranslate ==
    \A i \in Invs :
        (IsDefined(inv[i].currentUrl) /\ unsupportedUrl(ValueOf(inv[i].currentUrl))
             /\ OnTranslationHost(ValueOf(inv[i].currentUrl))) =>
           /\ ~ Called(i, "tabs.update")
           /\ inv[i].pc = "responded" /\ inv[i].response = Success

\* ---- overlapping invocations
\* C28: in every interleaving of invocations, the tab an invocation polls and
\* navigates and the window it focuses are the tab and the window of the
\* duplicate window this same invocation created, and the translate URL it
\* sets encodes its own source URL and target language.
C28_OwnDuplicate ==
    \A i \in Invs :
        (inv[i].pc \in Lookups \cup Sleeps \cup {"tabs.get", "tabs.update", "focus"}) =>
           /\ duplicatedTabId(i) = splitViewDataOf(inv[i]).duplicatedTabId
           /\ duplicatedWindowId(i) = createdWindowId(i)
           /\ ValueOf(inv[i].result).targetLanguage = inv[i].targetLanguage
           /\ inv[i].translateUrl =
                  translateUrlOf(inv[i].targetLanguage, inv[i].currentTab.url)


\* C29: no window rectangle handed to the host by a split, neither the
\* created right window's nor the resized left window's, is narrower than
\* MIN_WINDOW_WIDTH (400) or lower than MIN_WINDOW_HEIGHT (300).
C29_MinimumWindowSize ==
    \A i \in Invs :
        /\ Called(i, "windows.create") =>
              /\ inv[i].rightPosition.width >= 400
              /\ inv[i].rightPosition.height >= 300
        /\ Called(i, "windows.update") =>
              /\ inv[i].leftPosition.width >= 400
              /\ inv[i].leftPosition.height >= 300

\* C30: both rectangles lie inside the clamped display area: each starts at
\* or right of the area's left edge and ends at or left of its right edge,
\* has the area's top and the area's height.
C30_InsideDisplayArea ==
    \A i \in Invs : LayoutComputed(i) =>
        LET area == inv[i].displayBounds
        IN \A w \in {inv[i].leftPosition, inv[i].rightPosition} :
              /\ area.left <= w.left
              /\ w.left + w.width <= area.left + area.width
              /\ w.top = area.top
              /\ w.height = area.height

\* the area is the clamped one (the source was narrower than 400); the right
\* window starts 192 right of the area's left edge and ends at its right edge
C30_Witness ==
    \E i \in Invs :
        /\ LayoutComputed(i)
        /\ inv[i].bounds.width < 400
        /\ inv[i].displayBounds.width = 400
        /\ inv[i].rightPosition.left = inv[i].displayBounds.left + 192
        /\ inv[i].rightPosition.left + inv[i].rightPosition.width
              = inv[i].displayBounds.left + inv[i].displayBounds.width

====
